---- MODULE Spec2Model ----
(***************************************************************************)
(* Model of the notes REST API (PRASHANTSWAROOP001/notes-app).             *)
(*                                                                         *)
(* The state is the relational store the handlers share (tables notes and  *)
(* note_shares) and the Create requests that are between their two storage *)
(* calls; the service holds no other state.  One action is one HTTP        *)
(* request: the route's middleware, the handler, the service validation    *)
(* and the storage statement.  Create has two storage statements and is    *)
(* two actions, so that other requests interleave between them.  What a    *)
(* request does is an operator from the request and the store to the set   *)
(* of its outcomes: the answer sent to the client and the store it leaves. *)
(*                                                                         *)
(* Strings the code takes apart (titles, identifiers, slugs) are sequences *)
(* of one-character strings; all other strings are opaque.                 *)
(***************************************************************************)
EXTENDS Naturals, Integers, Sequences, FiniteSets, Bags, TLC

VARIABLES
    notes,        \* table notes: a set of rows
    note_shares,  \* table note_shares: a bag of rows (note_id, email)
    clock,        \* the store's NOW()
    assigned,     \* identifiers the store has handed out (never reused)
    creating,     \* Create requests past the INSERT, before the slug UPDATE
    users,        \* table users: a set of rows
    registering   \* Register requests past the lookup, before the INSERT

vars == <<notes, note_shares, clock, assigned, creating, users, registering>>

-----------------------------------------------------------------------------
(* Bounds of the model.                                                    *)

NumIds == 2           \* identifiers the store can hand out
MaxTitleLen == 1      \* longest title a request carries
MaxClock == 3         \* statements that read NOW()
MaxShareRows == 2     \* rows of note_shares

-----------------------------------------------------------------------------
(* Character strings.                                                      *)

TitleChars == {"M", " "}

RECURSIVE SeqsUpTo(_, _)
SeqsUpTo(S, n) ==
    IF n = 0 THEN {<< >>}
    ELSE LET shorter == SeqsUpTo(S, n - 1)
         IN  shorter \cup {Append(s, c) : s \in shorter, c \in S}

Titles == SeqsUpTo(TitleChars, MaxTitleLen)

Contents == {"", "body"}

\* strings.ToLower on one character
ToLowerChar(c) ==
    IF c = "M" THEN "m" ELSE IF c = "F" THEN "f" ELSE IF c = "N" THEN "n" ELSE c

\* strings.ToLower
ToLower(s) == [i \in 1..Len(s) |-> ToLowerChar(s[i])]

\* strings.ReplaceAll(s, old, new) for one-character old and new
ReplaceAll(s, old, new) == [i \in 1..Len(s) |-> IF s[i] = old THEN new ELSE s[i]]

slugify(title) == ReplaceAll(ToLower(title), " ", "-")

\* id[:6] is defined only for Len(id) >= 6 (Go panics otherwise); callers
\* test CanSlice first.
ShortIDLen == 6
CanSlice(id) == Len(id) >= ShortIDLen

slugifyWithID_Mutant_NoLower(title, id) ==
    ReplaceAll(title, " ", "-") \o <<"-">> \o SubSeq(id, 1, ShortIDLen)

slugifyWithID(title, id) ==
    slugify(title) \o <<"-">> \o SubSeq(id, 1, ShortIDLen)

-----------------------------------------------------------------------------
(* Identifiers.  The store assigns them, MkId(1) first, and never one      *)
(* twice; the first two agree on their first six characters, as two UUIDs  *)
(* can.                                                                    *)

Digit == <<"1", "2", "3", "4", "5", "6", "7", "8", "9">>

MkId(i) ==
    IF i <= 2 THEN <<"a", "b", "c", "d", "e", "f", Digit[i]>>
              ELSE <<"a", "b", "c", "d", "e", Digit[i], Digit[i]>>

IdPool == {MkId(i) : i \in 1..NumIds}

\* Identifiers a request can carry: the store's, the empty one, a short one.
ReqIds == IdPool \cup {<< >>, <<"a", "b">>}

-----------------------------------------------------------------------------
(* Accounts and credentials.                                               *)

Accounts == {[user_id |-> "u1", email |-> "e1"], [user_id |-> "u2", email |-> "e2"]}

\* Emails a share request can name: an account's, or none.
ShareEmails == {"e1", ""}

\* The Authorization header of a request.
Headers ==
    {[kind |-> k, user_id |-> "", email |-> ""] : k \in {"none", "wrongprefix"}}
    \cup {[kind |-> k, user_id |-> a.user_id, email |-> a.email] :
             k \in {"badsignature", "expired", "valid"}, a \in Accounts}

-----------------------------------------------------------------------------
(* Access-control gates (internal/middleware/authMiddleware.go).  A gate   *)
(* gives the request context the handler runs with, or rejects.            *)

\* jwt.Parse succeeds and token.Valid: the signature is right, exp is ahead.
TokenValid(h) == h.kind = "valid"

HasBearer(h) == h.kind # "none" /\ h.kind # "wrongprefix"

Rejected == [rejected |-> TRUE, user_id |-> "", email |-> ""]
Passed(uid, em) == [rejected |-> FALSE, user_id |-> uid, email |-> em]

AuthMiddleware_Mutant_NoValidityTest(h) ==
    IF ~HasBearer(h) THEN Rejected ELSE Passed(h.user_id, h.email)

AuthMiddleware(h) ==
    IF ~HasBearer(h) THEN Rejected
    ELSE IF ~TokenValid(h) THEN Rejected
    ELSE Passed(h.user_id, h.email)

OptionalMiddleware_Mutant_TrustsPayload(h) ==
    IF ~HasBearer(h) THEN Passed("", "") ELSE Passed(h.user_id, h.email)

OptionalMiddleware(h) ==
    IF ~HasBearer(h) THEN Passed("", "")
    ELSE IF ~TokenValid(h) THEN Passed("", "")
    ELSE Passed(h.user_id, h.email)

\* A handler registered with http.HandleFunc and no gate: the context is empty.
NoMiddleware(h) == Passed("", "")

\* cmd/server/main.go: the gate each route is registered with.
PublicRoutes == {"/notes", "/notes/public"}

RouteGate(route, h) ==
    IF route = "/notes" THEN OptionalMiddleware(h)
    ELSE IF route = "/notes/public" THEN NoMiddleware(h)
    ELSE AuthMiddleware(h)

-----------------------------------------------------------------------------
(* Rows and answers.                                                       *)

\* Slug is *string: NULL in the store, or a string.
NullSlug == [valid |-> FALSE, str |-> << >>]
SomeSlug(s) == [valid |-> TRUE, str |-> s]

Note(id, author, title, content, public, slug, created, updated) ==
    [id |-> id, author_id |-> author, title |-> title, content |-> content,
     public |-> public, slug |-> slug, created_at |-> created, updated_at |-> updated]

\* NoteSummary: the columns UpdateNote returns and GetNotesByAuthor selects.
NoteSummary(n) ==
    [id |-> n.id, author_id |-> n.author_id, title |-> n.title,
     public |-> n.public, slug |-> n.slug, created_at |-> n.created_at]

Share(noteID, email) == [note_id |-> noteID, email |-> email]

StatusOK == "200 OK"
StatusBadRequest == "400 Bad Request"
StatusUnauthorized == "401 Unauthorized"
StatusForbidden == "403 Forbidden"
StatusInternalServerError == "500 Internal Server Error"
NoAnswer == "no answer"

ErrStorage == "storage error"
Panic == "panic: slice bounds out of range"

-----------------------------------------------------------------------------
(* Storage statements (the SQL of postgresNotesRepository).  Each is one   *)
(* atomic statement of the store.                                          *)

\* SELECT ... FROM notes WHERE author_id = $1 AND id = $2
GetNoteByIDRows_Mutant_AnyAuthor(noteID, authorID) ==
    {n \in notes : n.id = noteID}

GetNoteByIDRows(noteID, authorID) ==
    {n \in notes : n.author_id = authorID /\ n.id = noteID}

\* DELETE FROM notes WHERE id = $1 AND author_id = $2: the rows it removes
DeleteNoteRows_Mutant_AnyAuthor(noteID, authorID) ==
    {n \in notes : n.id = noteID}

DeleteNoteRows(noteID, authorID) ==
    {n \in notes : n.id = noteID /\ n.author_id = authorID}

\* UPDATE notes ... WHERE author_id = $1 AND id = $2: the rows it rewrites
UpdateNoteRows(noteID, authorID) ==
    {n \in notes : n.author_id = authorID /\ n.id = noteID}

\* INSERT INTO note_shares SELECT n.id, $3 FROM notes n
\* WHERE n.id = $1 AND n.author_id = $2: the rows the SELECT yields
AddEmailShareRows_Mutant_NoOwner(noteID, ownerId, emailId) ==
    {Share(n.id, emailId) : n \in {m \in notes : m.id = noteID}}

AddEmailShareRows(noteID, ownerId, emailId) ==
    {Share(n.id, emailId) : n \in {m \in notes : m.id = noteID /\ m.author_id = ownerId}}

\* DELETE FROM note_shares WHERE note_id = $1 AND email = $2
\*   AND EXISTS(SELECT 1 FROM notes WHERE id = $1 AND author_id = $3)
RemoveEmailShareRows_Mutant_NoOwner(noteID, ownerID, emailID) ==
    {g \in BagToSet(note_shares) : g.note_id = noteID /\ g.email = emailID}

RemoveEmailShareRows(noteID, ownerID, emailID) ==
    {g \in BagToSet(note_shares) :
        /\ g.note_id = noteID
        /\ g.email = emailID
        /\ \E n \in notes : n.id = noteID /\ n.author_id = ownerID}

\* slug = $1 on a nullable column: NULL matches nothing
SlugIs(n, slug) == n.slug.valid /\ n.slug.str = slug

\* GetNoteBySlug with userID == nil:
\* SELECT ... FROM notes WHERE slug = $1 AND public = TRUE LIMIT 1
SlugRowsAnonymous_Mutant_AnyVisibility(slug) ==
    {n \in notes : SlugIs(n, slug)}

SlugRowsAnonymous(slug) ==
    {n \in notes : SlugIs(n, slug) /\ n.public}

\* GetNoteBySlug with userID != nil:
\* SELECT n.* FROM notes n LEFT JOIN note_shares ns ON n.id = ns.note_id
\* WHERE n.slug = $1 AND (n.public = TRUE OR n.author_id = $2 OR ns.email = $3)
\* LIMIT 1
SlugRowsFor_Mutant_AnyGrant(slug, userID, userEmail) ==
    {n \in notes :
        /\ SlugIs(n, slug)
        /\ \/ n.public
           \/ n.author_id = userID
           \/ \E ns \in BagToSet(note_shares) : ns.note_id = n.id}

SlugRowsFor(slug, userID, userEmail) ==
    {n \in notes :
        /\ SlugIs(n, slug)
        /\ \/ n.public
           \/ n.author_id = userID
           \/ \E ns \in BagToSet(note_shares) :
                 ns.note_id = n.id /\ ns.email = userEmail}

\* SELECT ... FROM notes WHERE author_id = $1 ORDER BY created_at DESC
RECURSIVE OrderByCreatedDesc(_)
OrderByCreatedDesc(rows) ==
    IF rows = {} THEN << >>
    ELSE LET first == CHOOSE n \in rows : \A m \in rows : m.created_at <= n.created_at
         IN  <<first>> \o OrderByCreatedDesc(rows \ {first})

GetNotesByAuthorRows_Mutant_PublicToo(authorID) ==
    OrderByCreatedDesc({NoteSummary(n) :
                            n \in {m \in notes : m.author_id = authorID \/ m.public}})

GetNotesByAuthorRows(authorID) ==
    OrderByCreatedDesc({NoteSummary(n) : n \in {m \in notes : m.author_id = authorID}})

-----------------------------------------------------------------------------
(* Requests.  XxxOutcomes is a whole request: gate, handler, service,      *)
(* storage statement, answer.  A storage statement can fail (the err != nil *)
(* branch of the repository), which changes nothing in the store.          *)

\* The store as a request finds it.
Here ==
    [notes |-> notes, note_shares |-> note_shares, clock |-> clock,
     assigned |-> assigned, creating |-> creating]

\* The store as a request leaves it.
Become(st) ==
    /\ notes' = st.notes
    /\ note_shares' = st.note_shares
    /\ clock' = st.clock
    /\ assigned' = st.assigned
    /\ creating' = st.creating
    /\ UNCHANGED <<users, registering>>

\* An outcome: the HTTP status, the error the service returned ("" when
\* none), the rows in the body, and the store afterwards.  Status NoAnswer:
\* nothing was written to the client (the request is still running, or its
\* handler panicked).
Outcome(code, err, body, st) == [code |-> code, err |-> err, body |-> body, st |-> st]

Fail(code, err) == Outcome(code, err, << >>, Here)

\* !ok || userId == "" in every handler behind the strict gate
Unidentified(ctx) == ctx.rejected \/ ctx.user_id = ""

Init ==
    /\ notes = {}
    /\ note_shares = EmptyBag
    /\ clock = 0
    /\ assigned = {}
    /\ creating = {}
    /\ users = {}
    /\ registering = {}

\* The identifier the store gives the next row of notes.
NextId == MkId(Cardinality(assigned) + 1)

\* POST /notes/create-note up to and including the INSERT of
\* postgresNotesRepository.CreateNote.  The service leaves n.Slug nil, so
\* the row is inserted with a NULL slug.
CreateNoteOutcomes_Mutant_NoTitleTest(h, title, content, public) ==
    LET ctx == RouteGate("/notes/create-note", h)
        n == Note(NextId, ctx.user_id, title, content, public, NullSlug,
                  clock + 1, clock + 1)
    IN  IF Unidentified(ctx) THEN {Fail(StatusUnauthorized, "unauthorized")}
        ELSE IF content = "" THEN {Fail(StatusInternalServerError, "missing content")}
        ELSE {Fail(StatusInternalServerError, ErrStorage)}
             \cup IF clock < MaxClock /\ Cardinality(assigned) < NumIds
                  THEN {Outcome(NoAnswer, "", << >>,
                                [Here EXCEPT !.notes = notes \cup {n},
                                             !.assigned = assigned \cup {n.id},
                                             !.creating = creating \cup {n},
                                             !.clock = clock + 1])}
                  ELSE {}

CreateNoteOutcomes(h, title, content, public) ==
    LET ctx == RouteGate("/notes/create-note", h)
        n == Note(NextId, ctx.user_id, title, content, public, NullSlug,
                  clock + 1, clock + 1)
    IN  IF Unidentified(ctx) THEN {Fail(StatusUnauthorized, "unauthorized")}
        ELSE IF content = "" THEN {Fail(StatusInternalServerError, "missing content")}
        ELSE IF title = << >> THEN {Fail(StatusInternalServerError, "missing title")}
        ELSE {Fail(StatusInternalServerError, ErrStorage)}
             \cup IF clock < MaxClock /\ Cardinality(assigned) < NumIds
                  THEN {Outcome(NoAnswer, "", << >>,
                                [Here EXCEPT !.notes = notes \cup {n},
                                             !.assigned = assigned \cup {n.id},
                                             !.creating = creating \cup {n},
                                             !.clock = clock + 1])}
                  ELSE {}

\* The slug Create persists once the identifier is known (part_004 50-51).
CreateSlug_Mutant_PublicOnly(n) ==
    IF n.public THEN SomeSlug(slugifyWithID(n.title, n.id)) ELSE NullSlug

CreateSlug(n) == SomeSlug(slugifyWithID(n.title, n.id))

\* The rest of postgresNotesRepository.CreateNote for the request holding n:
\* UPDATE notes SET slug = $1 WHERE id = $2, then the answer.
CreateNoteSlugOutcomes(n) ==
    LET rest == [Here EXCEPT !.creating = creating \ {n}]
        final == [n EXCEPT !.slug = CreateSlug(n)]
    IN  IF ~CanSlice(n.id) THEN {Outcome(NoAnswer, Panic, << >>, rest)}
        ELSE {Outcome(StatusInternalServerError, ErrStorage, << >>, rest),
              Outcome(StatusOK, "", <<final>>,
                      [rest EXCEPT !.notes =
                          {IF m.id = n.id THEN [m EXCEPT !.slug = final.slug] ELSE m :
                              m \in notes}])}

\* GET /notes/get-notes
GetUserNotesOutcomes(h) ==
    LET ctx == RouteGate("/notes/get-notes", h)
    IN  IF Unidentified(ctx) THEN {Fail(StatusUnauthorized, "unauthorized")}
        ELSE {Fail(StatusInternalServerError, ErrStorage),
              Outcome(StatusOK, "", GetNotesByAuthorRows(ctx.user_id), Here)}

\* GET /notes/get-note?id=
GetUserNoteByIdOutcomes(h, id) ==
    LET ctx == RouteGate("/notes/get-note", h)
        rows == GetNoteByIDRows(id, ctx.user_id)
    IN  IF Unidentified(ctx) THEN {Fail(StatusUnauthorized, "unauthorized request")}
        ELSE {Fail(StatusInternalServerError, ErrStorage)}
             \cup IF rows = {}
                  THEN {Fail(StatusInternalServerError, "could not find the requested note")}
                  ELSE {Outcome(StatusOK, "", <<n>>, Here) : n \in rows}

\* DELETE /notes/delete?id=
\* The statement removes rows of notes only; what becomes of the note's
\* rows in note_shares is the schema's business, and no statement reads
\* them again, the identifier never being assigned twice.
DeleteNoteOutcomes(h, id) ==
    LET ctx == RouteGate("/notes/delete", h)
        rows == DeleteNoteRows(id, ctx.user_id)
    IN  IF Unidentified(ctx) THEN {Fail(StatusUnauthorized, "missing auth header")}
        ELSE {Fail(StatusInternalServerError, ErrStorage)}
             \cup IF rows = {}
                  THEN {Fail(StatusInternalServerError,
                             "error could not found any note to delete")}
                  ELSE {Outcome(StatusOK, "", << >>, [Here EXCEPT !.notes = notes \ rows])}

\* PUT /notes/update
\* postgresNotesRepository.UpdateNote derives the slug from the request's
\* identifier before it runs the statement.
UpdateNoteOutcomes(h, id, title, content, public) ==
    LET ctx == RouteGate("/notes/update", h)
        rows == UpdateNoteRows(id, ctx.user_id)
        Set(n) == [n EXCEPT !.title = title, !.content = content, !.public = public,
                            !.slug = SomeSlug(slugifyWithID(title, id)),
                            !.updated_at = clock + 1]
    IN  IF Unidentified(ctx) THEN {Fail(StatusUnauthorized, "unauthorized")}
        ELSE IF content = "" THEN {Fail(StatusInternalServerError, "missing content")}
        ELSE IF title = << >> THEN {Fail(StatusInternalServerError, "missing title")}
        ELSE IF ~CanSlice(id) THEN {Fail(NoAnswer, Panic)}
        ELSE {Fail(StatusInternalServerError, ErrStorage)}
             \cup IF rows = {}
                  THEN {Fail(StatusInternalServerError, "failed to update note")}
                  ELSE IF clock < MaxClock
                  THEN {Outcome(StatusOK, "", <<NoteSummary(Set(n))>>,
                                [Here EXCEPT !.notes = (notes \ rows)
                                                        \cup {Set(m) : m \in rows},
                                             !.clock = clock + 1]) : n \in rows}
                  ELSE {}

\* POST /notes/share-slug
ShareWithEmailOutcomes(h, id, email) ==
    LET ctx == RouteGate("/notes/share-slug", h)
        rows == AddEmailShareRows(id, ctx.user_id, email)
    IN  IF Unidentified(ctx) THEN {Fail(StatusUnauthorized, "missing auth header")}
        ELSE IF email = ""
             THEN {Fail(StatusInternalServerError, "empty email cant be provided")}
        ELSE IF id = << >> THEN {Fail(StatusInternalServerError, "empty")}
        ELSE {Fail(StatusInternalServerError, ErrStorage)}
             \cup IF rows = {}
                  THEN {Fail(StatusInternalServerError, "unauthorized or invalid note")}
                  ELSE IF BagCardinality(note_shares) < MaxShareRows
                  THEN {Outcome(StatusOK, "", << >>,
                                [Here EXCEPT !.note_shares =
                                    note_shares (+) SetToBag(rows)])}
                  ELSE {}

\* DELETE /notes/revoke-access?email=&id=
RemoveEmailShareOutcomes_Mutant_OneRow(h, email, id) ==
    LET ctx == RouteGate("/notes/revoke-access", h)
        rows == RemoveEmailShareRows(id, ctx.user_id, email)
    IN  IF Unidentified(ctx) THEN {Fail(StatusUnauthorized, "missing auth header")}
        ELSE IF email = "" \/ id = << >>
             THEN {Fail(StatusBadRequest, "missing params in query")}
        ELSE {Fail(StatusInternalServerError, ErrStorage)}
             \cup IF rows = {}
                  THEN {Fail(StatusInternalServerError, "unauthorized or share not found")}
                  ELSE {Outcome(StatusOK, "", << >>,
                                [Here EXCEPT !.note_shares = note_shares (-) SetToBag(rows)])}

RemoveEmailShareOutcomes(h, email, id) ==
    LET ctx == RouteGate("/notes/revoke-access", h)
        rows == RemoveEmailShareRows(id, ctx.user_id, email)
    IN  IF Unidentified(ctx) THEN {Fail(StatusUnauthorized, "missing auth header")}
        ELSE IF email = "" \/ id = << >>
             THEN {Fail(StatusBadRequest, "missing params in query")}
        ELSE {Fail(StatusInternalServerError, ErrStorage)}
             \cup IF rows = {}
                  THEN {Fail(StatusInternalServerError, "unauthorized or share not found")}
                  ELSE {Outcome(StatusOK, "", << >>,
                                [Here EXCEPT !.note_shares =
                                    [g \in DOMAIN note_shares \ rows |-> note_shares[g]]])}

\* service.GetPublicNote: the rows GetNoteBySlug can pick its one row from.
\* The handler passes nil identities when the context holds no user id.
GetPublicNoteRows(slug, ctx) ==
    IF ctx.user_id = "" THEN SlugRowsAnonymous(slug)
    ELSE SlugRowsFor(slug, ctx.user_id, ctx.email)

\* GET /notes?q= and GET /notes/public?q= (both run NoteHandler.GetPublicAccess)
GetPublicAccessOutcomes(route, h, slug) ==
    LET ctx == RouteGate(route, h)
        rows == GetPublicNoteRows(slug, ctx)
    IN  {Fail(StatusForbidden, ErrStorage)}
        \cup IF rows = {}
             THEN {Fail(StatusForbidden, "note not found or access denied")}
             ELSE {Outcome(StatusOK, "", <<n>>, Here) : n \in rows}

\* Slugs a lookup can ask for.
ReqSlugs ==
    {slugifyWithID(t, id) : t \in Titles \ {<< >>}, id \in IdPool} \cup {<< >>}

\* The inputs of a request are enumerated in full for the requests the gate
\* lets through; a request the gate rejects is answered before its
\* parameters are read, and one value stands for all of them.
Read(route, h, values) ==
    IF RouteGate(route, h).rejected THEN {CHOOSE v \in values : TRUE} ELSE values

CreateNote ==
    \E h \in Headers :
        \E t \in Read("/notes/create-note", h, Titles),
           c \in Read("/notes/create-note", h, Contents),
           p \in Read("/notes/create-note", h, BOOLEAN) :
            \E o \in CreateNoteOutcomes(h, t, c, p) : Become(o.st)

CreateNoteSlug ==
    \E n \in creating : \E o \in CreateNoteSlugOutcomes(n) : Become(o.st)

GetUserNotes ==
    \E h \in Headers : \E o \in GetUserNotesOutcomes(h) : Become(o.st)

GetUserNoteById ==
    \E h \in Headers :
        \E id \in Read("/notes/get-note", h, ReqIds) :
            \E o \in GetUserNoteByIdOutcomes(h, id) : Become(o.st)

DeleteNote ==
    \E h \in Headers :
        \E id \in Read("/notes/delete", h, ReqIds) :
            \E o \in DeleteNoteOutcomes(h, id) : Become(o.st)

UpdateNote ==
    \E h \in Headers :
        \E id \in Read("/notes/update", h, ReqIds),
           t \in Read("/notes/update", h, Titles),
           c \in Read("/notes/update", h, Contents),
           p \in Read("/notes/update", h, BOOLEAN) :
            \E o \in UpdateNoteOutcomes(h, id, t, c, p) : Become(o.st)

ShareWithEmail ==
    \E h \in Headers :
        \E id \in Read("/notes/share-slug", h, ReqIds),
           e \in Read("/notes/share-slug", h, ShareEmails) :
            \E o \in ShareWithEmailOutcomes(h, id, e) : Become(o.st)

RemoveEmailShare ==
    \E h \in Headers :
        \E id \in Read("/notes/revoke-access", h, ReqIds),
           e \in Read("/notes/revoke-access", h, ShareEmails) :
            \E o \in RemoveEmailShareOutcomes(h, e, id) : Become(o.st)

GetPublicAccess ==
    \E r \in PublicRoutes, h \in Headers, s \in ReqSlugs :
        \E o \in GetPublicAccessOutcomes(r, h, s) : Become(o.st)

Next ==
    \/ CreateNote
    \/ CreateNoteSlug
    \/ GetUserNotes
    \/ GetUserNoteById
    \/ DeleteNote
    \/ UpdateNote
    \/ ShareWithEmail
    \/ RemoveEmailShare
    \/ GetPublicAccess

Spec == Init /\ [][Next]_vars

-----------------------------------------------------------------------------
(* The identity component: POST /auth/register and POST /auth/login.       *)
(* Emails and passwords are sequences of characters.                       *)

MaxRegistering == 2   \* Register requests between their lookup and their INSERT

Alpha == {"a", "b", "c", "i", "o", "p", "q", "w", "s", "r", "d"}
Numeric == {"1", "2"}
LocalChar == Alpha \cup Numeric \cup {".", "_", "%", "+", "-"}
DomainChar == Alpha \cup Numeric \cup {".", "-"}

\* ^[a-zA-Z0-9._%+\-]+@[a-zA-Z0-9.\-]+\.[a-zA-Z]{2,}$
emailRegex(s) ==
    \E i \in 1..Len(s), j \in 1..Len(s) :
        /\ s[i] = "@" /\ i > 1
        /\ \A k \in 1..(i - 1) : s[k] \in LocalChar
        /\ s[j] = "." /\ j > i + 1
        /\ \A k \in (i + 1)..(j - 1) : s[k] \in DomainChar
        /\ Len(s) - j >= 2
        /\ \A k \in (j + 1)..Len(s) : s[k] \in Alpha

MinPasswordLen == 8

ErrInvalidEmail == "invalid email format provided"
ErrWeakPassword == "password length is less than 8 chars"
ErrEmailExists == "email provided is already in use"
ErrInvalidLogin == "invalid credentials"
ErrInsertingUser == "error inserting user"

Emails ==
    {<<"a", "@", "b", ".", "i", "o">>, <<"c", "@", "b", ".", "i", "o">>,
     <<"a", "@", "b">>}
Names == {"Ann", "Bob"}
Passwords ==
    {<<"p", "w">>, <<"p", "a", "s", "s", "w", "o", "r", "d">>,
     <<"q", "a", "s", "s", "w", "o", "r", "d">>}

\* bcrypt.GenerateFromPassword / CompareHashAndPassword
Hashed(password) == <<"bcrypt">> \o password
CompareHashAndPassword(hash, password) == hash = Hashed(password)

User(id, email, name, password) ==
    [id |-> id, email |-> email, name |-> name, password |-> password]

\* SELECT ... FROM users WHERE email = $1
GetUserByEmailRows(email) == {u \in users : u.email = email}

\* The store refuses a second row with an email the table holds.
UsersEmailKey_Mutant_NoConstraint(email) == FALSE

UsersEmailKey(email) == \E u \in users : u.email = email

UsersHere == [users |-> users, registering |-> registering]

BecomeUsers(st) ==
    /\ users' = st.users
    /\ registering' = st.registering
    /\ UNCHANGED <<notes, note_shares, clock, assigned, creating>>

FailUsers(code, err) == Outcome(code, err, << >>, UsersHere)

\* service.Register up to the call of CreateUser.  The error of the lookup is
\* dropped (existing, _ := ...): a lookup that fails leaves existing nil, as
\* a lookup that finds no row does, and Register goes on to the INSERT.
RegisterOutcomes(email, name, password) ==
    LET request == [email |-> email, name |-> name, password |-> Hashed(password)]
        GoOn == IF Cardinality(registering \cup {request}) <= MaxRegistering
                THEN {Outcome(NoAnswer, "", << >>,
                              [UsersHere EXCEPT !.registering = registering \cup {request}])}
                ELSE {}
    IN  IF ~emailRegex(email) THEN {FailUsers(StatusBadRequest, ErrInvalidEmail)}
        ELSE IF Len(password) < MinPasswordLen
             THEN {FailUsers(StatusBadRequest, ErrWeakPassword)}
        ELSE IF GetUserByEmailRows(email) # {}
             THEN {FailUsers(StatusBadRequest, ErrEmailExists)} \cup GoOn
        ELSE GoOn

\* The rest of service.Register: postgresUserRepository.CreateUser and the
\* answer of the handler.
CreateUserOutcomes(request) ==
    LET rest == [UsersHere EXCEPT !.registering = registering \ {request}]
        u == User(Cardinality(users) + 1, request.email, request.name, request.password)
    IN  {Outcome(StatusBadRequest, ErrInsertingUser, << >>, rest)}
        \cup IF UsersEmailKey(request.email)
             THEN {}
             ELSE {Outcome(StatusOK, "", <<[u EXCEPT !.password = << >>]>>,
                           [rest EXCEPT !.users = users \cup {u}])}

\* service.Login and the token it signs
LoginOutcomes(email, password) ==
    LET rows == GetUserByEmailRows(email)
    IN  {FailUsers(StatusUnauthorized, ErrInvalidLogin)}
        \cup {Outcome(StatusOK, "",
                      <<[u EXCEPT !.password = << >>],
                        [kind |-> "valid", user_id |-> u.id, email |-> u.email]>>,
                      UsersHere) :
                 u \in {r \in rows : CompareHashAndPassword(r.password, password)}}

Register ==
    \E e \in Emails, n \in Names, p \in Passwords :
        \E o \in RegisterOutcomes(e, n, p) : BecomeUsers(o.st)

CreateUser ==
    \E r \in registering : \E o \in CreateUserOutcomes(r) : BecomeUsers(o.st)

Login ==
    \E e \in Emails, p \in Passwords :
        \E o \in LoginOutcomes(e, p) : BecomeUsers(o.st)

NextUsers ==
    \/ Register
    \/ CreateUser
    \/ Login

SpecUsers == Init /\ [][NextUsers]_vars

-----------------------------------------------------------------------------
(* Vocabulary of the properties.                                           *)

ValidHeaders == {h \in Headers : TokenValid(h)}

IdsOf(rows) == {n.id : n \in rows}

HasSlug(n) == n.slug.valid /\ Len(n.slug.str) > 0

HasGrant(noteID, email) == BagIn(Share(noteID, email), note_shares)

\* The outcomes in which the store answered the statement.
Answered(outcomes) == {o \in outcomes : o.err # ErrStorage}

-----------------------------------------------------------------------------
(* C1: a lookup by slug with no identity resolved returns a note only if   *)
(* the note is stored, is public and has the slug asked for; where every   *)
(* note with that slug is private the lookup fails, whatever grants exist. *)

C1_AnonymousLookupOnlyPublic ==
    \A r \in PublicRoutes, h \in Headers, s \in ReqSlugs :
        RouteGate(r, h).user_id = "" =>
            /\ \A o \in GetPublicAccessOutcomes(r, h, s) :
                  o.code = StatusOK =>
                      /\ o.body[1] \in notes
                      /\ o.body[1].public
                      /\ SlugIs(o.body[1], s)
            /\ (\A n \in notes : SlugIs(n, s) => ~n.public) =>
                  \A o \in GetPublicAccessOutcomes(r, h, s) : o.code = StatusForbidden

\* A private note with a slug and a grant, which the anonymous lookup of
\* its slug does not return, next to a public note that its lookup returns.
C1_Witness ==
    \E n \in notes, m \in notes, h \in Headers :
        /\ h.kind = "none"
        /\ ~n.public /\ HasSlug(n) /\ HasGrant(n.id, "e1")
        /\ \A o \in GetPublicAccessOutcomes("/notes", h, n.slug.str) :
              o.code = StatusForbidden
        /\ m.public /\ HasSlug(m)
        /\ \E o \in GetPublicAccessOutcomes("/notes", h, m.slug.str) : o.body = <<m>>

-----------------------------------------------------------------------------
(* C2: a lookup by slug with an identity resolved returns a note with the  *)
(* slug asked for if and only if the note is public, or the caller owns    *)
(* it, or the caller's email has a grant on it.  GetNoteBySlug takes one   *)
(* row (LIMIT 1): each note it may take satisfies this, each note that     *)
(* satisfies this may be taken, and where none does the lookup fails.      *)

MayRead(n, userID, userEmail) ==
    n.public \/ n.author_id = userID \/ HasGrant(n.id, userEmail)

C2_AuthenticatedLookupPublicOwnerOrGrantee ==
    \A r \in PublicRoutes, h \in Headers, s \in ReqSlugs :
        LET ctx == RouteGate(r, h)
            outcomes == GetPublicAccessOutcomes(r, h, s)
        IN  ctx.user_id # "" =>
                /\ \A o \in outcomes :
                      o.code = StatusOK => o.body[1] \in notes /\ SlugIs(o.body[1], s)
                /\ \A n \in notes :
                      SlugIs(n, s) =>
                          ((\E o \in outcomes : o.code = StatusOK /\ o.body = <<n>>)
                              <=> MayRead(n, ctx.user_id, ctx.email))
                /\ (\A n \in notes : SlugIs(n, s) => ~MayRead(n, ctx.user_id, ctx.email))
                      => \A o \in outcomes : o.code = StatusForbidden

\* A private note of u2 shared with e1, which u1 (email e1) gets, and a
\* private note of u1 shared with e1, which u2 (email e2) does not get.
C2_Witness ==
    \E n \in notes, m \in notes, h1 \in ValidHeaders, h2 \in ValidHeaders :
        /\ h1.user_id = "u1" /\ h1.email = "e1"
        /\ h2.user_id = "u2" /\ h2.email = "e2"
        /\ ~n.public /\ n.author_id = "u2" /\ HasSlug(n) /\ HasGrant(n.id, "e1")
        /\ \E o \in GetPublicAccessOutcomes("/notes", h1, n.slug.str) : o.body = <<n>>
        /\ ~m.public /\ m.author_id = "u1" /\ HasSlug(m) /\ HasGrant(m.id, "e1")
        /\ n.slug.str # m.slug.str
        /\ \A o \in GetPublicAccessOutcomes("/notes", h2, m.slug.str) :
              o.code = StatusForbidden

-----------------------------------------------------------------------------
(* C3: a request to /notes/public with a valid credential is served with   *)
(* that credential's identity: the owner of a private note, and a caller   *)
(* whose email has a grant on it, get the note by its slug.                *)

C3_PublicRouteResolvesCredential ==
    \A h \in ValidHeaders, n \in notes :
        (~n.public /\ HasSlug(n)
            /\ (n.author_id = h.user_id \/ HasGrant(n.id, h.email)))
        => \E o \in GetPublicAccessOutcomes("/notes/public", h, n.slug.str) :
               o.code = StatusOK

-----------------------------------------------------------------------------
(* C4 as claimed: each stored note has a slug exactly when it is public.   *)

C4_SlugExactlyWhenPublic ==
    \A n \in notes : HasSlug(n) <=> n.public

(* C4 as amended: visibility does not decide the slug.  A Create that      *)
(* answers with the note, and an Update that succeeds, leave the note with *)
(* a non-empty slug whether public is true or false, and take no other     *)
(* note's slug away; a stored note without slug is one no Update has       *)
(* touched since its INSERT.                                               *)

\* A slug is there where the request wrote it and stays where it was.
KeepsSlugs(st, id) ==
    \A m \in st.notes :
        (m.id = id \/ \E n \in notes : n.id = m.id /\ HasSlug(n)) => HasSlug(m)

C4_SlugWhateverVisibility ==
    /\ \A n \in creating : \A o \in CreateNoteSlugOutcomes(n) :
          o.code = StatusOK => HasSlug(o.body[1]) /\ KeepsSlugs(o.st, n.id)
    /\ \A h \in Headers, id \in ReqIds, t \in Titles, c \in Contents, p \in BOOLEAN :
          \A o \in UpdateNoteOutcomes(h, id, t, c, p) :
              o.code = StatusOK => HasSlug(o.body[1]) /\ KeepsSlugs(o.st, id)
    /\ \A n \in notes :
          ~HasSlug(n) => n.updated_at = n.created_at /\ n.slug = NullSlug

\* A private note whose Create has answered, with its slug, and a private
\* note that an Update has left private, with its slug.
C4_Witness ==
    \E n \in notes, m \in notes :
        /\ ~n.public /\ HasSlug(n) /\ n \notin creating
        /\ n.updated_at = n.created_at
        /\ ~m.public /\ HasSlug(m) /\ m.updated_at > m.created_at

-----------------------------------------------------------------------------
(* C5: a Create that answers with the note (public or not) and an Update   *)
(* that succeeds leave as the note's slug the title in lower case with     *)
(* each space replaced by a hyphen, then a hyphen, then the first six      *)
(* characters of the identifier; "My First Note" gives my-first-note-      *)
(* followed by those six characters.                                       *)

\* slug is the slug the spec describes for title and id.
IsDerivedSlug(slug, title, id) ==
    /\ Len(slug) = Len(title) + 1 + 6
    /\ \A i \in 1..Len(title) :
          slug[i] = IF title[i] = " " THEN "-" ELSE ToLowerChar(title[i])
    /\ slug[Len(title) + 1] = "-"
    /\ \A j \in 1..6 : slug[Len(title) + 1 + j] = id[j]

MyFirstNote == <<"M", "y", " ", "F", "i", "r", "s", "t", " ", "N", "o", "t", "e">>

C5_SlugDerivedFromTitleAndId ==
    /\ \A n \in creating : \A o \in CreateNoteSlugOutcomes(n) :
          o.code = StatusOK =>
              /\ o.body[1].slug.valid
              /\ IsDerivedSlug(o.body[1].slug.str, n.title, n.id)
              /\ \A m \in o.st.notes : m.id = n.id => m.slug = o.body[1].slug
    /\ \A h \in Headers, id \in ReqIds, t \in Titles, c \in Contents, p \in BOOLEAN :
          \A o \in UpdateNoteOutcomes(h, id, t, c, p) :
              o.code = StatusOK =>
                  \A m \in o.st.notes :
                      m.id = id =>
                          /\ m.title = t
                          /\ m.slug.valid
                          /\ IsDerivedSlug(m.slug.str, t, m.id)
                          /\ o.body[1].slug = m.slug
    /\ \A id \in IdPool :
          slugifyWithID(MyFirstNote, id)
              = <<"m", "y", "-", "f", "i", "r", "s", "t", "-", "n", "o", "t", "e", "-">>
                  \o SubSeq(id, 1, 6)

\* A public note whose title an Update changed and whose slug is the new
\* title's, while a Create holding a title with a capital is about to
\* write its slug.
C5_Witness ==
    \E m \in notes, n \in creating :
        /\ m.public /\ m.updated_at > m.created_at
        /\ m.title = <<" ">> /\ m.slug = SomeSlug(<<"-", "-">> \o SubSeq(m.id, 1, 6))
        /\ n.public /\ n.title = <<"M">> /\ n \in notes

-----------------------------------------------------------------------------
(* C6: no two distinct stored notes have the same slug, so a lookup by     *)
(* slug matches at most one note.                                          *)

C6_SlugsAreUnique ==
    /\ \A n \in notes, m \in notes :
          (n.id # m.id /\ HasSlug(n) /\ HasSlug(m)) => n.slug.str # m.slug.str
    /\ \A s \in ReqSlugs : Cardinality({n \in notes : SlugIs(n, s)}) <= 1

-----------------------------------------------------------------------------
(* C7: an Update by a caller who does not own the note, or of a note that  *)
(* does not exist, is answered with an error and leaves the store as it    *)
(* was.                                                                    *)

Owns(userID, noteID) == \E n \in notes : n.id = noteID /\ n.author_id = userID

ErrorStatus == {StatusBadRequest, StatusUnauthorized, StatusForbidden,
                StatusInternalServerError}

C7_UpdateByNonOwnerFailsWithError ==
    \A h \in ValidHeaders, id \in ReqIds, t \in Titles, c \in Contents, p \in BOOLEAN :
        ~Owns(h.user_id, id) =>
            \A o \in UpdateNoteOutcomes(h, id, t, c, p) :
                o.code \in ErrorStatus /\ o.st = Here

\* The part of C7 that holds: such an Update changes nothing.
C7_UpdateByNonOwnerChangesNothing ==
    \A h \in ValidHeaders, id \in ReqIds, t \in Titles, c \in Contents, p \in BOOLEAN :
        ~Owns(h.user_id, id) =>
            \A o \in UpdateNoteOutcomes(h, id, t, c, p) :
                o.code # StatusOK /\ o.st = Here

-----------------------------------------------------------------------------
(* C8: Delete removes the note if and only if the caller owns it; for a    *)
(* note that does not exist and for a note of another account it answers   *)
(* the same error and the store is as it was; an identifier once deleted   *)
(* is never a stored note again and no read returns anything but stored    *)
(* notes.                                                                  *)

\* Identifiers the store handed out whose note is gone.
Gone == assigned \ IdsOf(notes)

\* Every outcome a request that writes can have in this state.
WriteOutcomes ==
    UNION ({CreateNoteOutcomes(h, t, c, p) :
                h \in ValidHeaders, t \in Titles, c \in Contents, p \in BOOLEAN}
           \cup {CreateNoteSlugOutcomes(n) : n \in creating}
           \cup {DeleteNoteOutcomes(h, id) : h \in ValidHeaders, id \in ReqIds}
           \cup {UpdateNoteOutcomes(h, id, t, c, p) :
                    h \in ValidHeaders, id \in ReqIds, t \in Titles, c \in Contents,
                    p \in BOOLEAN}
           \cup {ShareWithEmailOutcomes(h, id, e) :
                    h \in ValidHeaders, id \in ReqIds, e \in ShareEmails}
           \cup {RemoveEmailShareOutcomes(h, e, id) :
                    h \in ValidHeaders, id \in ReqIds, e \in ShareEmails})

\* Every outcome a request that reads can have in this state.
ReadOutcomes ==
    UNION ({GetUserNotesOutcomes(h) : h \in Headers}
           \cup {GetUserNoteByIdOutcomes(h, id) : h \in Headers, id \in ReqIds}
           \cup {GetPublicAccessOutcomes(r, h, s) :
                    r \in PublicRoutes, h \in Headers, s \in ReqSlugs})

C8_DeleteOnlyByOwner ==
    /\ \A h \in ValidHeaders, id \in ReqIds :
          \A o \in DeleteNoteOutcomes(h, id) :
              /\ o.code = StatusOK <=> o.st # Here
              /\ o.code = StatusOK =>
                    /\ Owns(h.user_id, id)
                    /\ o.st.notes = {n \in notes : n.id # id}
                    /\ o.st = [Here EXCEPT !.notes = o.st.notes]
              /\ (Owns(h.user_id, id) /\ o.err # ErrStorage) => o.code = StatusOK
    /\ \A h \in ValidHeaders, id1 \in ReqIds, id2 \in ReqIds :
          (~Owns(h.user_id, id1) /\ ~Owns(h.user_id, id2)) =>
              /\ DeleteNoteOutcomes(h, id1) = DeleteNoteOutcomes(h, id2)
              /\ \A o \in DeleteNoteOutcomes(h, id1) : o.code = StatusInternalServerError
    /\ \A o \in WriteOutcomes : IdsOf(o.st.notes) \cap Gone = {}
    /\ \A o \in ReadOutcomes :
          \A i \in 1..Len(o.body) : o.body[i].id \in IdsOf(notes) /\ o.body[i].id \notin Gone

\* The owner has deleted a note, and a note of u1 is stored that u2's
\* Delete does not remove.
C8_Witness ==
    /\ Gone # {}
    /\ \E n \in notes, h \in ValidHeaders :
          /\ n.author_id = "u1" /\ h.user_id = "u2"
          /\ \A o \in DeleteNoteOutcomes(h, n.id) : o.st = Here

-----------------------------------------------------------------------------
(* C9: GetByID returns the note only to its owner; to any other caller,    *)
(* also one whose email has a grant on the note and also for a public      *)
(* note, it answers what it answers for an identifier that is not stored.  *)

C9_GetByIdOwnerOnly ==
    \A h \in ValidHeaders, id \in ReqIds :
        /\ \A o \in GetUserNoteByIdOutcomes(h, id) :
              o.code = StatusOK =>
                  /\ o.body[1] \in notes
                  /\ o.body[1].id = id
                  /\ o.body[1].author_id = h.user_id
        /\ (Owns(h.user_id, id) =>
              \E o \in GetUserNoteByIdOutcomes(h, id) : o.code = StatusOK)
        /\ ~Owns(h.user_id, id) =>
              \A missing \in ReqIds \ IdsOf(notes) :
                  GetUserNoteByIdOutcomes(h, id) = GetUserNoteByIdOutcomes(h, missing)

\* A public note of u2 with a grant for e1, which u1 (email e1) asks for by
\* its identifier.
C9_Witness ==
    \E n \in notes, h \in ValidHeaders :
        /\ n.author_id = "u2" /\ n.public /\ HasGrant(n.id, "e1")
        /\ h.user_id = "u1" /\ h.email = "e1"
        /\ \A o \in GetUserNoteByIdOutcomes(h, n.id) : o.code # StatusOK

-----------------------------------------------------------------------------
(* C10: ShareViaEmail adds the grant (note, email), and nothing else, only *)
(* if the note is stored and owned by the caller when the statement runs;  *)
(* for any other caller or a missing note it answers an error and adds no  *)
(* grant, whatever Deletes and other requests ran before it; every grant   *)
(* names an identifier the store has handed out.                           *)

C10_ShareOnlyByOwner ==
    /\ \A h \in ValidHeaders, id \in ReqIds, e \in ShareEmails :
          \A o \in ShareWithEmailOutcomes(h, id, e) :
              /\ o.code = StatusOK <=> o.st # Here
              /\ o.code = StatusOK =>
                    /\ Owns(h.user_id, id)
                    /\ o.st.note_shares = note_shares (+) SetToBag({Share(id, e)})
                    /\ o.st = [Here EXCEPT !.note_shares = o.st.note_shares]
              /\ ~Owns(h.user_id, id) => o.code \in ErrorStatus
    /\ \A g \in BagToSet(note_shares) : g.note_id \in assigned

\* A grant on a stored note of u2, a grant left from a note since deleted,
\* and u1 asking to share both notes.
C10_Witness ==
    \E g \in BagToSet(note_shares), d \in BagToSet(note_shares), h \in ValidHeaders :
        /\ Owns("u2", g.note_id)
        /\ d.note_id \in Gone
        /\ h.user_id = "u1"
        /\ \A o \in ShareWithEmailOutcomes(h, g.note_id, "e1") : o.st = Here
        /\ \A o \in ShareWithEmailOutcomes(h, d.note_id, "e1") : o.st = Here
-----------------------------------------------------------------------------
(* C11: RevokeEmailShare removes the grant (note, email), and nothing      *)
(* else, only if the caller owns the note; revoking a grant that does not  *)
(* exist, or as a caller who does not own the note, is answered with an    *)
(* error (the handler is not aborted) and leaves every grant and every     *)
(* note as it was.                                                         *)

C11_RevokeOnlyByOwner ==
    \A h \in ValidHeaders, id \in ReqIds, e \in ShareEmails :
        \A o \in RemoveEmailShareOutcomes(h, e, id) :
            /\ o.code = StatusOK <=> o.st # Here
            /\ o.code = StatusOK =>
                  /\ Owns(h.user_id, id) /\ HasGrant(id, e)
                  /\ ~BagIn(Share(id, e), o.st.note_shares)
                  /\ \A g \in BagToSet(note_shares) \ {Share(id, e)} :
                        CopiesIn(g, o.st.note_shares) = CopiesIn(g, note_shares)
                  /\ BagToSet(o.st.note_shares) \subseteq BagToSet(note_shares)
                  /\ o.st = [Here EXCEPT !.note_shares = o.st.note_shares]
            /\ (~Owns(h.user_id, id) \/ ~HasGrant(id, e)) =>
                  o.code \in ErrorStatus /\ o.err # Panic

\* u2's note has a grant for e1 that u1 asks to revoke, and u2 asks to revoke
\* a grant on a note of theirs that has none.
C11_Witness ==
    \E n \in notes, m \in notes, h1 \in ValidHeaders, h2 \in ValidHeaders :
        /\ n.author_id = "u2" /\ HasGrant(n.id, "e1") /\ h1.user_id = "u1"
        /\ m.author_id = "u2" /\ ~HasGrant(m.id, "e1") /\ h2.user_id = "u2"
        /\ \A o \in RemoveEmailShareOutcomes(h1, "e1", n.id) : o.st = Here
        /\ \A o \in RemoveEmailShareOutcomes(h2, "e1", m.id) : o.st = Here
        /\ \E o \in RemoveEmailShareOutcomes(h2, "e1", n.id) : o.code = StatusOK
-----------------------------------------------------------------------------
(* C12: a grant gives read access and nothing more: a caller who is        *)
(* authenticated with the email of a grant on a note and does not own the  *)
(* note gets the note from a lookup by its slug, and every Update, Delete, *)
(* ShareViaEmail, RevokeEmailShare and GetByID of that caller on the note  *)
(* is answered with an error and changes nothing.                          *)

\* The outcomes of every request other than the lookup by slug that caller h
\* can issue on the note id.
OwnerOnlyOutcomes(h, id) ==
    UNION ({UpdateNoteOutcomes(h, id, t, c, p) :
                t \in Titles, c \in Contents, p \in BOOLEAN}
           \cup {DeleteNoteOutcomes(h, id), GetUserNoteByIdOutcomes(h, id)}
           \cup {ShareWithEmailOutcomes(h, id, e) : e \in ShareEmails}
           \cup {RemoveEmailShareOutcomes(h, e, id) : e \in ShareEmails})

\* Caller h holds a grant on note n and does not own it.
Grantee(h, n) == h.user_id # n.author_id /\ HasGrant(n.id, h.email)

C12_GrantConfersReadOnly ==
    \A n \in notes, h \in ValidHeaders :
        Grantee(h, n) =>
            /\ HasSlug(n) =>
                  \A r \in PublicRoutes :
                      \E o \in GetPublicAccessOutcomes(r, h, n.slug.str) :
                          o.code = StatusOK /\ o.body = <<n>>
            /\ \A o \in OwnerOnlyOutcomes(h, n.id) :
                  o.code \in ErrorStatus /\ o.st = Here

\* The part of C12 that holds: the grantee reads the note on the route behind
\* the optional gate, and can do nothing else with it.
C12_GrantReadOnlyBehindOptionalGate ==
    \A n \in notes, h \in ValidHeaders :
        Grantee(h, n) =>
            /\ HasSlug(n) =>
                  \E o \in GetPublicAccessOutcomes("/notes", h, n.slug.str) :
                      o.code = StatusOK /\ o.body = <<n>>
            /\ \A o \in OwnerOnlyOutcomes(h, n.id) :
                  o.code \in ErrorStatus /\ o.st = Here
-----------------------------------------------------------------------------
(* C13: once Register has succeeded for an email, every later Register     *)
(* with that email is answered with the email-in-use error, whatever name  *)
(* and password it carries, and creates no account.                        *)

\* What a whole Register request with these inputs can answer and leave
\* behind when it runs alone from this state: its lookup, then its INSERT.
RegisterAlone(email, name, password) ==
    UNION {IF o.code # NoAnswer THEN {o}
           ELSE LET request == [email |-> email, name |-> name,
                                password |-> Hashed(password)]
                    rest == [UsersHere EXCEPT !.registering = registering \ {request}]
                    u == User(Cardinality(users) + 1, email, name, Hashed(password))
                IN  {Outcome(StatusBadRequest, ErrInsertingUser, << >>, UsersHere)}
                    \cup IF UsersEmailKey(email)
                         THEN {}
                         ELSE {Outcome(StatusOK, "", <<u>>,
                                       [UsersHere EXCEPT !.users = users \cup {u}])}
           : o \in RegisterOutcomes(email, name, password)}

C13_SecondRegisterEmailExists ==
    \A u \in users, n \in Names, p \in Passwords :
        \A o \in RegisterOutcomes(u.email, n, p) :
            o.err = ErrEmailExists /\ o.st = UsersHere

\* The part of C13 that holds with the key on users.email: no later Register
\* with the email creates an account.
C13_SecondRegisterCreatesNoAccount ==
    \A u \in users, n \in Names, p \in Passwords :
        \A o \in RegisterAlone(u.email, n, p) :
            o.code = StatusBadRequest /\ o.st.users = users
-----------------------------------------------------------------------------
(* C14: behind the strict gate a request reaches its handler only with a   *)
(* 'Bearer ' header whose token is correctly signed and not expired; with  *)
(* no header, a wrong prefix, a bad signature or an expired token the      *)
(* answer is unauthorized, no handler runs and the store is as it was.     *)
(* When the gate passes, the handler acts for the account in the token.    *)

InvalidHeaders == Headers \ ValidHeaders

\* Every outcome of every request on a route behind the strict gate.
StrictOutcomes(h) ==
    UNION ({CreateNoteOutcomes(h, t, c, p) :
                t \in Titles, c \in Contents, p \in BOOLEAN}
           \cup {GetUserNotesOutcomes(h)}
           \cup {OwnerOnlyOutcomes(h, id) : id \in ReqIds})

C14_StrictGate ==
    /\ \A h \in InvalidHeaders :
          \A o \in StrictOutcomes(h) :
              o.code = StatusUnauthorized /\ o.st = Here /\ o.body = << >>
    /\ \A h \in ValidHeaders :
          /\ AuthMiddleware(h) = Passed(h.user_id, h.email)
          /\ \A o \in GetUserNotesOutcomes(h) : o.code # StatusUnauthorized
          /\ \A t \in Titles, c \in Contents, p \in BOOLEAN :
                \A o \in CreateNoteOutcomes(h, t, c, p) :
                    \A n \in o.st.notes \ notes : n.author_id = h.user_id
          /\ \A o \in GetUserNotesOutcomes(h) :
                \A i \in 1..Len(o.body) : o.body[i].author_id = h.user_id

\* u1 stores a note; a Delete of it with u1's expired token and one with a
\* token of u1 with a bad signature change nothing, a Delete with u1's valid
\* token removes it.
C14_Witness ==
    \E n \in notes, x \in Headers, b \in Headers, v \in Headers :
        /\ n.author_id = "u1"
        /\ x.kind = "expired" /\ x.user_id = "u1"
        /\ b.kind = "badsignature" /\ b.user_id = "u1"
        /\ v.kind = "valid" /\ v.user_id = "u1"
        /\ \A o \in DeleteNoteOutcomes(x, n.id) \cup DeleteNoteOutcomes(b, n.id) :
              o.code = StatusUnauthorized /\ o.st = Here
        /\ \E o \in DeleteNoteOutcomes(v, n.id) : o.code = StatusOK /\ n \notin o.st.notes

-----------------------------------------------------------------------------
(* C15: the optional gate never rejects: with no header, a wrong prefix, a *)
(* bad signature or an expired token the handler runs with no identity, as *)
(* for a request with no credential, and only a valid token attaches an    *)
(* identity; an invalid credential gives no more than no credential.       *)

NoHeader == [kind |-> "none", user_id |-> "", email |-> ""]

C15_OptionalGate ==
    /\ \A h \in InvalidHeaders, s \in ReqSlugs :
          /\ GetPublicAccessOutcomes("/notes", h, s)
                = GetPublicAccessOutcomes("/notes", NoHeader, s)
          /\ \A o \in GetPublicAccessOutcomes("/notes", h, s) :
                /\ o.code # StatusUnauthorized
                /\ o.code = StatusOK => o.body[1].public
    /\ \A h \in ValidHeaders, s \in ReqSlugs :
          \A o \in GetPublicAccessOutcomes("/notes", h, s) :
              /\ o.code # StatusUnauthorized
              /\ o.code = StatusOK => MayRead(o.body[1], h.user_id, h.email)

\* A private note of u1 with a slug: a lookup with u1's expired token fails
\* as the anonymous lookup does, a lookup with u1's valid token returns it.
C15_Witness ==
    \E n \in notes, x \in Headers, v \in Headers :
        /\ n.author_id = "u1" /\ ~n.public /\ HasSlug(n)
        /\ x.kind = "expired" /\ x.user_id = "u1"
        /\ v.kind = "valid" /\ v.user_id = "u1"
        /\ \A o \in GetPublicAccessOutcomes("/notes", x, n.slug.str) :
              o.code = StatusForbidden
        /\ \E o \in GetPublicAccessOutcomes("/notes", v, n.slug.str) : o.body = <<n>>
-----------------------------------------------------------------------------
(* C16: a Create and an Update with an empty title or an empty content are *)
(* answered with an error and leave the store as it was; every stored note *)
(* has a non-empty title and a non-empty content.                          *)

C16_TitleAndContentNeverEmpty ==
    /\ \A h \in ValidHeaders, t \in Titles, c \in Contents, p \in BOOLEAN :
          (t = << >> \/ c = "") =>
              /\ \A o \in CreateNoteOutcomes(h, t, c, p) :
                    o.code \in ErrorStatus /\ o.st = Here
              /\ \A id \in ReqIds :
                    \A o \in UpdateNoteOutcomes(h, id, t, c, p) :
                        o.code \in ErrorStatus /\ o.st = Here
    /\ \A n \in notes : n.title # << >> /\ n.content # ""

\* The owner of a stored note asks for an Update of it with an empty title
\* and for one with an empty content.
C16_Witness ==
    \E n \in notes, h \in ValidHeaders :
        /\ h.user_id = n.author_id
        /\ \A o \in UpdateNoteOutcomes(h, n.id, << >>, "body", TRUE)
                    \cup UpdateNoteOutcomes(h, n.id, <<"M">>, "", TRUE) :
              o.code = StatusInternalServerError /\ o.st = Here
        /\ \E o \in UpdateNoteOutcomes(h, n.id, <<"M">>, "body", TRUE) : o.code = StatusOK
-----------------------------------------------------------------------------
(* C17: List returns exactly the notes the caller owns in the store, none  *)
(* of another account even when public or shared with the caller's email,  *)
(* each once and as a summary without the content, the newest first.       *)

C17_ListOwnNotesNewestFirst ==
    \A h \in ValidHeaders :
        \A o \in GetUserNotesOutcomes(h) :
            /\ o.st = Here
            /\ o.code = StatusOK =>
                  LET own == {n \in notes : n.author_id = h.user_id}
                  IN  /\ {o.body[i] : i \in 1..Len(o.body)} = {NoteSummary(n) : n \in own}
                      /\ Len(o.body) = Cardinality(own)
                      /\ \A i \in 1..Len(o.body) :
                            /\ "content" \notin DOMAIN o.body[i]
                            /\ o.body[i].author_id = h.user_id
                      /\ \A i \in 1..Len(o.body), j \in 1..Len(o.body) :
                            i < j => o.body[i].created_at >= o.body[j].created_at

\* u1 owns a note; u2 owns a newer public note shared with e1; u1's list
\* holds the one note of u1.
C17_Witness ==
    \E n \in notes, m \in notes, h \in ValidHeaders :
        /\ h.user_id = "u1" /\ h.email = "e1"
        /\ n.author_id = "u1"
        /\ m.author_id = "u2" /\ m.public /\ HasGrant(m.id, "e1")
        /\ m.created_at > n.created_at
        /\ \E o \in GetUserNotesOutcomes(h) : o.body = <<NoteSummary(n)>>
-----------------------------------------------------------------------------
(* C18: at most one account holds an email, however Register requests      *)
(* interleave: also when two requests for one email both run their lookup  *)
(* before either runs its INSERT, and when a lookup fails and its error is *)
(* dropped.                                                                *)

C18_EmailUniqueUnderInterleaving ==
    /\ \A u \in users, v \in users : u.email = v.email => u = v
    /\ \A r \in registering :
          (\E u \in users : u.email = r.email) =>
              \A o \in CreateUserOutcomes(r) :
                  o.code = StatusBadRequest /\ o.st.users = users

\* Two Register requests for one email are past their lookup, one has
\* inserted its account and the INSERT of the other is still to run.
C18_Witness ==
    \E u \in users, r \in registering :
        /\ r.email = u.email /\ r.name # u.name /\ r.password # u.password
        /\ \A o \in CreateUserOutcomes(r) : o.st.users = users
-----------------------------------------------------------------------------
(* C19: a grant is live from a successful Share of the owner to the next   *)
(* successful Revoke of the owner: a Revoke removes every row of the grant, *)
(* also when Share had succeeded more than once; a grant comes back only   *)
(* by a successful Share of the owner; and while a private note has no     *)
(* grant for email e, no lookup by its slug of a caller with email e who   *)
(* does not own it returns the note (the lookup is answered 403 unless     *)
(* another note the caller may read has the same slug).                    *)

GrantEmails == ShareEmails \ {""}

\* No lookup by slug hands note n to a caller with email e who does not own it.
Denied(n, e) ==
    \A r \in PublicRoutes, h \in ValidHeaders :
        (h.email = e /\ h.user_id # n.author_id) =>
            \A o \in GetPublicAccessOutcomes(r, h, n.slug.str) :
                /\ o.body # <<n>>
                /\ (\A m \in notes : SlugIs(m, n.slug.str) => m = n)
                      => o.code = StatusForbidden

NoGrantNoAccess ==
    \A n \in notes, e \in GrantEmails :
        (~n.public /\ HasSlug(n) /\ ~HasGrant(n.id, e)) => Denied(n, e)

C19_GrantLiveFromShareToRevoke ==
    [][/\ NoGrantNoAccess'
       /\ \A id \in IdPool, e \in GrantEmails :
             LET g == Share(id, e)
             IN  /\ CopiesIn(g, note_shares') < CopiesIn(g, note_shares)
                       => /\ ~BagIn(g, note_shares')
                          /\ \E h \in ValidHeaders :
                                /\ Owns(h.user_id, id)
                                /\ \E o \in RemoveEmailShareOutcomes(h, e, id) :
                                      o.code = StatusOK /\ o.st.note_shares = note_shares'
                 /\ CopiesIn(g, note_shares') > CopiesIn(g, note_shares)
                       => \E h \in ValidHeaders :
                             /\ Owns(h.user_id, id)
                             /\ \E o \in ShareWithEmailOutcomes(h, id, e) :
                                   o.code = StatusOK /\ o.st.note_shares = note_shares'
      ]_vars

\* Share has succeeded twice for e1 on a private note of u2, which u1 reads
\* by its slug; the Revoke of u2 leaves no row of the grant.
C19_Witness ==
    \E n \in notes, h \in ValidHeaders, g \in ValidHeaders :
        /\ n.author_id = "u2" /\ ~n.public /\ HasSlug(n)
        /\ CopiesIn(Share(n.id, "e1"), note_shares) = 2
        /\ h.user_id = "u2" /\ g.user_id = "u1" /\ g.email = "e1"
        /\ \E o \in GetPublicAccessOutcomes("/notes", g, n.slug.str) : o.body = <<n>>
        /\ \E o \in RemoveEmailShareOutcomes(h, "e1", n.id) :
              o.code = StatusOK /\ ~BagIn(Share(n.id, "e1"), o.st.note_shares)
-----------------------------------------------------------------------------
(* C20: an Update by an authenticated caller, whatever identifier its body *)
(* carries (an empty one and one shorter than 6 characters included), ends *)
(* with a result or an error reported to the caller; the handler is never  *)
(* aborted.                                                                *)

C20_UpdateNeverAborts ==
    \A h \in ValidHeaders, id \in ReqIds, t \in Titles, c \in Contents, p \in BOOLEAN :
        \A o \in UpdateNoteOutcomes(h, id, t, c, p) :
            o.err # Panic /\ o.code # NoAnswer

\* What holds: the slug derivation aborts exactly the Updates whose
\* identifier is shorter than 6 characters and whose title and content are
\* not empty, and such an Update changes nothing.
C20_UpdateAbortsOnShortIdOnly ==
    \A h \in ValidHeaders, id \in ReqIds, t \in Titles, c \in Contents, p \in BOOLEAN :
        \A o \in UpdateNoteOutcomes(h, id, t, c, p) :
            /\ o.err = Panic <=> (Len(id) < ShortIDLen /\ t # << >> /\ c # "")
            /\ o.err = Panic => o.st = Here
-----------------------------------------------------------------------------
(* C21: Create is all or nothing towards the store: when Create answers an *)
(* error, the failure of its second statement included, no note of that    *)
(* request is stored; so no stored public note is without its slug.        *)

C21_CreateAllOrNothing ==
    /\ \A n \in creating :
          \A o \in CreateNoteSlugOutcomes(n) :
              o.code # StatusOK => n.id \notin IdsOf(o.st.notes)
    /\ \A n \in notes : n.public => HasSlug(n)

\* What holds: a Create whose second statement fails leaves the notes table
\* as its INSERT left it, the new row included.
C21_FailedSlugUpdateKeepsRow ==
    \A n \in creating :
        \A o \in CreateNoteSlugOutcomes(n) :
            o.code # StatusOK => o.st.notes = notes

====
